---- MODULE Spec2Model ----
(***************************************************************************)
(* Model of src/src/sync_missing_articles.py: the reconciliation of a      *)
(* public article listing against a CMS, with its title normalizer, its    *)
(* CSV ledger and its CMS lookup.                                          *)
(*                                                                         *)
(* Text.  A text is a sequence of tokens <<base, depth>>.  base is a       *)
(* character class: "a" (a lowercase letter), "A" (its uppercase form),    *)
(* "sp" (a space), "nbsp" (U+00A0) and "q" (one of the quote characters    *)
(* normalize_title strips).  depth 0 is the character itself; depth k > 0  *)
(* is the character entity-encoded k times ("&quot;" is <<"q", 1>>,        *)
(* "&amp;quot;" is <<"q", 2>>).  An encoded token starts with "&" and ends *)
(* with ";", so it is neither whitespace nor a quote, and lower() leaves   *)
(* it alone (entity names here are lowercase).                             *)
(***************************************************************************)
EXTENDS Naturals, Sequences, FiniteSets, TLC

\* ------------------------------------------------------------- bounds
MaxLen == 3
MaxEnc == 2
MaxLinks == 2
MaxPage == 2
MaxRuns == 2
MaxClock == 1

VARIABLES
    probe,            \* the call under test of the pure-function specifications
    clock,            \* wall clock, in seconds
    files,            \* the file system: output name -> CSV records
    publicSite,       \* the public listing, as far as it has been fetched
    cmsSite,          \* the CMS content view, query by query, as far as it has been asked
    start_page, end_page, limit_per_page,   \* main's arguments
    run,              \* number of runs started
    pc,               \* where run_sync stands
    out_csv, already_missing, page_num, list_url, public_items,
    total_scanned, total_missing,
    session,          \* playwright driver, browser and browser context
    loaded,           \* history: the ledger load_existing_titles returned
    fetched,          \* history: <<page, outcome>> of every fetch of this run
    verified,         \* history: <<title, outcome>> of every CMS lookup of this run
    appended,         \* history: the records this run appended
    error             \* history: the exception that ended the run

probeVars == <<probe>>
envVars == <<clock, files, publicSite, cmsSite>>
argVars == <<start_page, end_page, limit_per_page>>
runVars == <<run, pc, out_csv, already_missing, page_num, list_url, public_items,
             total_scanned, total_missing, session>>
histVars == <<loaded, fetched, verified, appended, error>>
vars == <<probeVars, envVars, argVars, runVars, histVars>>

\* --------------------------------------------------------------- text
Bases == {"a", "A", "sp", "nbsp", "q"}
Tokens == Bases \X (0..MaxEnc)

Ch(b) == <<b, 0>>
Enc(b, d) == <<b, d>>

RECURSIVE SeqsUpTo(_, _)
SeqsUpTo(S, n) ==
    IF n = 0 THEN {<<>>}
    ELSE LET shorter == SeqsUpTo(S, n - 1)
         IN  shorter \cup {Append(s, x) : s \in {t \in shorter : Len(t) = n - 1}, x \in S}

Texts == SeqsUpTo(Tokens, MaxLen)

\* raw is None
None == <<Enc("None", 0)>>

\* html.unescape: one pass over the text, every entity decoded once
HtmlUnescape(s) ==
    [i \in 1..Len(s) |-> IF s[i][2] > 0 THEN <<s[i][1], s[i][2] - 1>> ELSE s[i]]

\* s.replace("\u00a0", " ")
ReplaceNbsp(s) == [i \in 1..Len(s) |-> IF s[i] = Ch("nbsp") THEN Ch("sp") ELSE s[i]]

\* str.isspace() and the regex class \s: U+00A0 is whitespace too
Whitespace == {Ch("sp"), Ch("nbsp")}

\* the characters of s.strip('\'"...')
QuoteChars == {Ch("q")}

RECURSIVE LStrip(_, _)
LStrip(s, chars) == IF s # <<>> /\ Head(s) \in chars THEN LStrip(Tail(s), chars) ELSE s

RECURSIVE RStrip(_, _)
RStrip(s, chars) ==
    IF s # <<>> /\ s[Len(s)] \in chars THEN RStrip(SubSeq(s, 1, Len(s) - 1), chars) ELSE s

\* str.strip(chars): the characters of chars are removed from both ends
Strip(s, chars) == RStrip(LStrip(s, chars), chars)

\* _whitespace_re.sub(" ", s): every maximal run of whitespace becomes one space
RECURSIVE CollapseWhitespace(_)
CollapseWhitespace(s) ==
    IF s = <<>> THEN <<>>
    ELSE IF Head(s) \in Whitespace
         THEN <<Ch("sp")>> \o CollapseWhitespace(LStrip(s, Whitespace))
         ELSE <<Head(s)>> \o CollapseWhitespace(Tail(s))

normalize_title(raw) ==
    IF raw = None THEN <<>>
    ELSE LET s1 == HtmlUnescape(raw)
             s2 == ReplaceNbsp(s1)
             s3 == Strip(s2, Whitespace)
             s4 == Strip(s3, QuoteChars)
         IN  Strip(CollapseWhitespace(s4), Whitespace)

\* str.lower()
Lower(s) == [i \in 1..Len(s) |-> IF s[i] = Ch("A") THEN Ch("a") ELSE s[i]]

\* ---------------------------------------------- specification: normalizer
RunParked ==
    /\ clock = 0 /\ files = <<>> /\ publicSite = <<>> /\ cmsSite = <<>>
    /\ start_page = 1 /\ end_page = 1 /\ limit_per_page = [none |-> TRUE, n |-> 0]
    /\ run = 0 /\ pc = "idle" /\ out_csv = <<>> /\ already_missing = {}
    /\ page_num = 0 /\ list_url = <<>> /\ public_items = <<>>
    /\ total_scanned = 0 /\ total_missing = 0
    /\ session = [playwright |-> "none", browser |-> "none", context |-> "none"]
    /\ loaded = {} /\ fetched = <<>> /\ verified = {} /\ appended = <<>>
    /\ error = "none"

InitNorm ==
    /\ probe \in {[op |-> "normalize_title", raw |-> x, calls |-> <<>>] : x \in Texts}
    /\ RunParked

\* normalize_title(raw)
NormalizeOnce ==
    /\ probe.op = "normalize_title" /\ probe.calls = <<>>
    /\ probe' = [probe EXCEPT !.calls = <<normalize_title(probe.raw)>>]
    /\ UNCHANGED <<envVars, argVars, runVars, histVars>>

\* normalize_title(normalize_title(raw))
NormalizeAgain ==
    /\ probe.op = "normalize_title" /\ Len(probe.calls) = 1
    /\ probe' = [probe EXCEPT !.calls = Append(@, normalize_title(probe.calls[1]))]
    /\ UNCHANGED <<envVars, argVars, runVars, histVars>>

NextNorm == NormalizeOnce \/ NormalizeAgain

SpecNorm == InitNorm /\ [][NextNorm]_vars

\* C8: normalize_title is idempotent: a second application changes nothing.
C8_Idempotent ==
    (probe.op = "normalize_title" /\ Len(probe.calls) = 2)
        => probe.calls[2] = probe.calls[1]

\* ---------------------------------------------------------- CMS lookup
(***************************************************************************)
(* What the browser page shows after page.goto(url): whether the text "No  *)
(* content available" is there, whether table.views-table and              *)
(* .view-content are there, and the texts of the title links.  The links   *)
(* are located inside table.views-table, so a page without the table has   *)
(* none.                                                                   *)
(***************************************************************************)
CmsPage(no_results, table, view_content, links) ==
    [no_results |-> no_results, table |-> table, view_content |-> view_content,
     links |-> links]

\* page.locator("table.views-table tbody td.views-field-title a")
TitleLinks(page) == IF page.table THEN page.links ELSE <<>>

\* the mutant of SessionCheck: "or" for "and"
SessionCheckOr(page) == ~page.table \/ ~page.view_content

\* await table.count() == 0 and await view_content.count() == 0
SessionCheck(page) == ~page.table /\ ~page.view_content

\* the "title" parameter of the query URL
CmsQuery(title) == normalize_title(title)

\* "True", "False": the value returned; "RuntimeError": the exception raised
cms_title_exists(page, title) ==
    LET clean == normalize_title(title)
        links == TitleLinks(page)
        wanted == Lower(clean)
    IN  IF page.no_results THEN "False"
        ELSE IF SessionCheck(page) THEN "RuntimeError"
        ELSE IF Len(links) = 0 THEN "False"
        ELSE IF \E i \in 1..Len(links) : Lower(normalize_title(links[i])) = wanted
             THEN "True"
        ELSE "False"

\* --------------------------------------------- specification: CMS lookup
LinkTexts ==
    { <<Ch("a")>>, <<Ch("q"), Ch("A"), Ch("q")>>, <<Ch("a"), Ch("a")>>,
      <<Ch("a"), Ch("nbsp"), Ch("sp"), Ch("a")>> }

QueryTitles ==
    { <<Ch("a")>>, <<Ch("A")>>, <<Ch("a"), Ch("sp"), Ch("A")>>, <<Enc("q", 1), Ch("a")>> }

ProbePages ==
    { CmsPage(n, t, v, l) : n \in BOOLEAN, t \in BOOLEAN, v \in BOOLEAN,
                            l \in SeqsUpTo(LinkTexts, MaxLinks) }

InitCms ==
    /\ probe \in {[op |-> "cms_title_exists", page |-> p, title |-> t, result |-> "pending"] :
                     p \in {x \in ProbePages : x.table \/ x.links = <<>>},
                     t \in QueryTitles}
    /\ RunParked

\* exists = await cms_title_exists(page, cms_base_url, title)
CmsLookup ==
    /\ probe.op = "cms_title_exists" /\ probe.result = "pending"
    /\ probe' = [probe EXCEPT !.result = cms_title_exists(probe.page, probe.title)]
    /\ UNCHANGED <<envVars, argVars, runVars, histVars>>

NextCms == CmsLookup

SpecCms == InitCms /\ [][NextCms]_vars

LinkMatches(page, title) ==
    \E i \in 1..Len(page.links) :
        Lower(normalize_title(page.links[i])) = Lower(normalize_title(title))

\* C6: the lookup follows the ordered policy: the "no content" indicator gives
\* False; else neither table nor container raises; else the answer is True
\* exactly when a title link of the table, normalized and lowercased, equals
\* the normalized lowercased query; the failure is raised exactly when the
\* indicator, the table and the container are all absent.
C6_Policy ==
    (probe.op = "cms_title_exists" /\ probe.result # "pending") =>
        LET p == probe.page
            broken == ~p.no_results /\ ~p.table /\ ~p.view_content
        IN  /\ probe.result = "RuntimeError" <=> broken
            /\ probe.result = "True" <=>
                   (~p.no_results /\ p.table /\ LinkMatches(p, probe.title))
            /\ probe.result = "False" <=>
                   (p.no_results \/ (~broken /\ ~(p.table /\ LinkMatches(p, probe.title))))

C6_Witness ==
    /\ probe.op = "cms_title_exists"
    /\ probe.result = "True"
    /\ probe.page.table /\ ~probe.page.view_content
    /\ Len(probe.page.links) = 2
    /\ normalize_title(probe.page.links[2]) # normalize_title(probe.title)

\* ----------------------------------------------------- public listing
\* the URL of a listing page: page 1 is the base URL, page N > 1 is page/N/ under it
public_page_url(page) ==
    IF page <= 1 THEN <<"list/">> ELSE <<"list/", "page/", page, "/">>

PublicArticle(title, url, date_text) == [title |-> title, url |-> url, date_text |-> date_text]

\* an <a> of the listing: its text, its href ("" when it has none) and the text
\* of the date link of its article (<<>> when it has none)
Anchor(title_raw, href, date_raw) == [title_raw |-> title_raw, href |-> href, date_raw |-> date_raw]

\* the loop over article_nodes: an anchor without a title or without an href is dropped
RECURSIVE ExtractItems(_)
ExtractItems(nodes) ==
    IF nodes = <<>> THEN <<>>
    ELSE LET a == Head(nodes)
             title == normalize_title(a.title_raw)
             date_text == normalize_title(a.date_raw)
         IN  (IF title # <<>> /\ a.href # <<>>
              THEN <<PublicArticle(title, a.href, date_text)>>
              ELSE <<>>) \o ExtractItems(Tail(nodes))

\* the mutant of fetch_public_articles: a page without section#main is an error
fetch_public_articles_strict(content) ==
    IF content.status # "ok" \/ ~content.main
    THEN [raised |-> TRUE, items |-> <<>>]
    ELSE [raised |-> FALSE, items |-> ExtractItems(content.nodes)]

\* raise_for_status() raises on a non-success response; a page without
\* section#main yields []
fetch_public_articles(content) ==
    IF content.status # "ok" THEN [raised |-> TRUE, items |-> <<>>]
    ELSE IF ~content.main THEN [raised |-> FALSE, items |-> <<>>]
    ELSE [raised |-> FALSE, items |-> ExtractItems(content.nodes)]

\* ------------------------------------------------------------- ledger
Header == <<"title", "public_url", "public_list_url", "public_date", "checked_at">>

\* os.path.exists(csv_path)
Exists(fs, csv_path) == csv_path \in DOMAIN fs

\* csv.DictReader: the first record names the columns, the others are the rows
DictReaderRows(lines) == [i \in 1..(Len(lines) - 1) |-> lines[i + 1]]

\* row.get("title") or ""
TitleOf(lines, row) ==
    IF \E i \in 1..Len(lines[1]) : lines[1][i] = "title"
    THEN row[CHOOSE i \in 1..Len(lines[1]) : lines[1][i] = "title"]
    ELSE <<>>

load_existing_titles(fs, csv_path) ==
    IF ~Exists(fs, csv_path) THEN {}
    ELSE LET lines == fs[csv_path]
             rows == DictReaderRows(lines)
             raws == {Strip(TitleOf(lines, rows[i]), Whitespace) : i \in 1..Len(rows)}
         IN  {Lower(normalize_title(raw)) : raw \in {r \in raws : r # <<>>}}

\* the record written: a space is added after a non-empty URL field
RowList(row) ==
    [row EXCEPT ![2] = IF row[2] # <<>> THEN Append(row[2], " ") ELSE row[2],
                ![3] = IF row[3] # <<>> THEN Append(row[3], " ") ELSE row[3]]

\* the file system after append_missing: the header is written first when the
\* file is new
append_missing(fs, csv_path, row) ==
    LET lines == IF Exists(fs, csv_path)
                 THEN Append(fs[csv_path], RowList(row))
                 ELSE <<Header, RowList(row)>>
    IN  [n \in DOMAIN fs \cup {csv_path} |-> IF n = csv_path THEN lines ELSE fs[n]]

\* f"{base}_{ts}{ext}" with ts = datetime.now(), to the second
timestamped_csv_name(now) == <<"missing_articles", now, ".csv">>

\* ------------------------------------------------ the world of a run
\* the anchors the listing pages are made of
AnchorPlain == Anchor(<<Ch("a")>>, <<"u1">>, <<Ch("a"), Ch("nbsp")>>)
AnchorUpper == Anchor(<<Ch("A")>>, <<"u2">>, <<>>)
\* &amp;quot; "a : three passes of normalize_title to settle
AnchorNested == Anchor(<<Enc("q", 2), Ch("sp"), Ch("q"), Ch("a")>>, <<"u3">>, <<>>)
\* &amp;quot; : "&quot;" after one pass, "" after two
AnchorQuote == Anchor(<<Enc("q", 2)>>, <<"u4">>, <<>>)
AnchorNoHref == Anchor(<<Ch("a"), Ch("a")>>, <<>>, <<>>)
AnchorNoTitle == Anchor(<<Ch("q"), Ch("sp"), Ch("q")>>, <<"u5">>, <<>>)

Listing(nodes) == [status |-> "ok", main |-> TRUE, nodes |-> nodes]

\* what a GET of a listing page may answer: an error status, a page without
\* section#main, or a listing
PublicPages ==
    { [status |-> "error", main |-> FALSE, nodes |-> <<>>],
      [status |-> "ok", main |-> FALSE, nodes |-> <<>>],
      Listing(<<>>),
      Listing(<<AnchorPlain, AnchorUpper>>),
      Listing(<<AnchorUpper, AnchorNested>>),
      Listing(<<AnchorUpper, AnchorNested, AnchorPlain>>),
      Listing(<<AnchorNoHref, AnchorQuote, AnchorNoTitle>>) }

\* what the CMS content view may show for a query
CmsViews ==
    { CmsPage(TRUE, FALSE, TRUE, <<>>),
      CmsPage(FALSE, FALSE, FALSE, <<>>),
      CmsPage(FALSE, TRUE, TRUE, << <<Ch("a"), Ch("a")>>, <<Ch("A")>> >>) }

\* what a fetched page was: an error status, a page without section#main, a listing
Answer(content) ==
    IF content.status # "ok" THEN "error"
    ELSE IF content.main THEN "listing" ELSE "no_main"

Limits == {[none |-> TRUE, n |-> 0], [none |-> FALSE, n |-> 1]}

\* public_items[:limit_per_page]
Truncate(items, limit) ==
    IF limit.none \/ limit.n >= Len(items) THEN items ELSE SubSeq(items, 1, limit.n)

\* f @@ (k :> v), also when k is in the domain already
Put(f, k, v) == [x \in DOMAIN f \cup {k} |-> IF x = k THEN v ELSE f[x]]

\* ------------------------------------------------------------ session
\* the exit of "async with async_playwright()": the driver is stopped, and the
\* browser and the contexts it launched go down with it
AsyncPlaywrightExit(s) == [playwright |-> "stopped", browser |-> "closed", context |-> "closed"]

\* await context.close(); await browser.close()
CloseSession(s) == [s EXCEPT !.context = "closed", !.browser = "closed"]

\* ------------------------------------------------------------ run_sync
Init ==
    /\ probe = [op |-> "none"]
    /\ clock = 0 /\ files = <<>> /\ publicSite = <<>> /\ cmsSite = <<>>
    /\ start_page \in 1..MaxPage /\ end_page \in 1..MaxPage
    /\ limit_per_page \in Limits
    /\ run = 0 /\ pc = "idle" /\ out_csv = <<>> /\ already_missing = {}
    /\ page_num = 0 /\ list_url = <<>> /\ public_items = <<>>
    /\ total_scanned = 0 /\ total_missing = 0
    /\ session = [playwright |-> "none", browser |-> "none", context |-> "none"]
    /\ loaded = {} /\ fetched = <<>> /\ verified = {} /\ appended = <<>>
    /\ error = "none"

\* a second of wall-clock time passes
Tick ==
    /\ clock < MaxClock
    /\ clock' = clock + 1
    /\ UNCHANGED <<probeVars, files, publicSite, cmsSite, argVars, runVars, histVars>>

\* main, up to the first page: the output file is named after the clock, the
\* ledger is loaded from it and the browser session is opened
Main ==
    /\ pc \in {"idle", "done", "aborted"}
    /\ run < MaxRuns
    /\ run' = run + 1
    /\ out_csv' = timestamped_csv_name(clock)
    /\ already_missing' = load_existing_titles(files, out_csv')
    /\ loaded' = already_missing'
    /\ total_scanned' = 0 /\ total_missing' = 0
    /\ session' = [playwright |-> "running", browser |-> "open", context |-> "open"]
    /\ page_num' = start_page /\ list_url' = <<>> /\ public_items' = <<>>
    /\ pc' = "page"
    /\ fetched' = <<>> /\ verified' = {} /\ appended' = <<>> /\ error' = "none"
    /\ UNCHANGED <<probeVars, envVars, argVars>>

\* the mutant of Raise: the exception is swallowed and the loop goes on with
\* the next page
RaiseSwallowed(exc) ==
    /\ pc' = "page" /\ page_num' = page_num + 1 /\ public_items' = <<>>
    /\ error' = exc
    /\ session' = session

\* the mutant of Raise: the driver is started without its context manager
RaiseNoExit(exc) ==
    /\ pc' = "aborted"
    /\ error' = exc
    /\ session' = session
    /\ UNCHANGED <<page_num, public_items>>

\* an exception inside the "async with" block: nothing catches it, the block
\* is left through the context manager's exit and run_sync ends
Raise(exc) ==
    /\ pc' = "aborted"
    /\ error' = exc
    /\ session' = AsyncPlaywrightExit(session)
    /\ UNCHANGED <<page_num, public_items>>

\* the loop goes on: with the next item of the page, or with the next page
Continue(items) ==
    /\ public_items' = items
    /\ IF items = <<>>
       THEN pc' = "page" /\ page_num' = page_num + 1
       ELSE pc' = "item" /\ page_num' = page_num
    /\ UNCHANGED <<error, session>>

\* one pass of "for page_num in range(start_page, end_page + 1)" up to the
\* first item: the page is fetched, cut to limit_per_page and counted
FetchPage ==
    /\ pc = "page" /\ page_num <= end_page
    /\ \E content \in PublicPages :
        /\ page_num \in DOMAIN publicSite => content = publicSite[page_num]
        /\ publicSite' = Put(publicSite, page_num, content)
        /\ list_url' = public_page_url(page_num)
        /\ LET got == fetch_public_articles(content)
               items == Truncate(got.items, limit_per_page)
           IN  IF got.raised
               THEN /\ Raise("HTTPStatusError")
                    /\ fetched' = Append(fetched, <<page_num, Answer(content)>>)
                    /\ UNCHANGED total_scanned
               ELSE /\ Continue(items)
                    /\ fetched' = Append(fetched, <<page_num, Answer(content)>>)
                    /\ total_scanned' = total_scanned + Len(items)
    /\ UNCHANGED <<probeVars, clock, files, cmsSite, argVars, run, out_csv,
                   already_missing, total_missing, loaded, verified, appended>>

\* the mutant of LedgerAdd: the key is not remembered
LedgerAddForgets(ledger, key) == ledger

\* already_missing.add(clean.lower())
LedgerAdd(ledger, key) == ledger \cup {key}

\* one pass of "for item in public_items"
ProcessItem ==
    /\ pc = "item"
    /\ LET item == Head(public_items)
           rest == Tail(public_items)
           clean == normalize_title(item.title)
       IN  IF Lower(clean) \in already_missing
           THEN /\ Continue(rest)
                /\ UNCHANGED <<files, cmsSite, already_missing, total_missing,
                               verified, appended>>
           ELSE \E view \in CmsViews :
                /\ CmsQuery(clean) \in DOMAIN cmsSite => view = cmsSite[CmsQuery(clean)]
                /\ cmsSite' = Put(cmsSite, CmsQuery(clean), view)
                /\ LET exists == cms_title_exists(view, clean)
                       row == <<clean, item.url, list_url, item.date_text, clock>>
                   IN  /\ verified' = verified \cup {<<clean, exists>>}
                       /\ IF exists = "RuntimeError"
                          THEN /\ Raise("RuntimeError")
                               /\ UNCHANGED <<files, already_missing, total_missing, appended>>
                          ELSE IF exists = "True"
                          THEN /\ Continue(rest)
                               /\ UNCHANGED <<files, already_missing, total_missing, appended>>
                          ELSE /\ files' = append_missing(files, out_csv, row)
                               /\ already_missing' = LedgerAdd(already_missing, Lower(clean))
                               /\ total_missing' = total_missing + 1
                               /\ appended' = Append(appended, RowList(row))
                               /\ Continue(rest)
    /\ UNCHANGED <<probeVars, clock, publicSite, argVars, run, out_csv, list_url,
                   total_scanned, loaded, fetched>>

\* after the last page: the context and the browser are closed and the
\* "async with" block is left
Finish ==
    /\ pc = "page" /\ page_num > end_page
    /\ session' = AsyncPlaywrightExit(CloseSession(session))
    /\ pc' = "done"
    /\ UNCHANGED <<probeVars, envVars, argVars, run, out_csv, already_missing, page_num,
                   list_url, public_items, total_scanned, total_missing, histVars>>

Next == Tick \/ Main \/ FetchPage \/ ProcessItem \/ Finish

Spec == Init /\ [][Next]_vars

\* ------------------------------------------------------------- claims
\* the titles of the records of a file, header left out
SinkTitles(fs, csv_path) ==
    IF ~Exists(fs, csv_path) THEN {}
    ELSE {TitleOf(fs[csv_path], fs[csv_path][i]) : i \in 2..Len(fs[csv_path])}

\* a record's title, normalized and lowercased
Key(title) == Lower(normalize_title(title))

IsPrefix(s, t) == Len(s) <= Len(t) /\ SubSeq(t, 1, Len(s)) = s

\* C1: a run after the first (same page range, same public listing, same CMS
\* answers) appends no record.
C1_RerunAddsNothing == run >= 2 => total_missing = 0

\* C2: when a run starts, its ledger holds the normalized lowercased title of
\* every record that earlier runs wrote, whichever timestamped file holds it.
C2_LedgerHoldsPriorRecords ==
    (pc = "page" /\ fetched = <<>>) =>
        \A name \in DOMAIN files :
            \A title \in SinkTitles(files, name) : Key(title) \in already_missing

\* C3: between two items of a run, and when it has ended, a key is in the
\* in-memory ledger exactly when the sink holds a record whose title,
\* normalized and lowercased, is that key.
C3_LedgerMatchesSink ==
    pc \in {"page", "item", "done", "aborted"} =>
        already_missing = {Key(title) : title \in SinkTitles(files, out_csv)}

\* C4: a run that completes from an empty ledger has appended one record per
\* distinct key among the titles the CMS lookup answered False for, and none
\* for a title it answered True for; the records are the tail of the sink.
C4_ExactlyTheAbsent ==
    (pc = "done" /\ loaded = {}) =>
        LET titles == {appended[i][1] : i \in 1..Len(appended)}
            keys == {Lower(t) : t \in titles}
            absent == {v \in verified : v[2] = "False"}
        IN  /\ Cardinality(keys) = Len(appended)
            /\ keys = {Lower(v[1]) : v \in absent}
            /\ \A v \in verified : v[2] = "True" => v[1] \notin titles
            /\ Len(appended) > 0 =>
                   /\ Exists(files, out_csv)
                   /\ Len(files[out_csv]) > Len(appended)
                   /\ SubSeq(files[out_csv], Len(files[out_csv]) - Len(appended) + 1,
                             Len(files[out_csv])) = appended

C4_Witness ==
    /\ pc = "done" /\ loaded = {}
    /\ total_scanned = 2 /\ Len(appended) = 1
    /\ \E v \in verified : v[2] = "True"

\* C5: a failed page fetch or a failed CMS lookup ends the run in that very
\* step and writes nothing; once the run has ended that way it fetches no
\* page, looks up no title and appends no record; and records are only ever
\* added at the end of a file.
C5_AbortHalts ==
    [][ /\ (Len(fetched') > Len(fetched) /\ fetched'[Len(fetched')][2] = "error")
            => (pc' = "aborted" /\ files' = files)
        /\ (\E v \in verified' \ verified : v[2] = "RuntimeError")
            => (pc' = "aborted" /\ files' = files)
        /\ (pc = "aborted" /\ run' = run)
            => /\ pc' = "aborted"
               /\ files' = files /\ fetched' = fetched /\ verified' = verified
               /\ publicSite' = publicSite /\ cmsSite' = cmsSite
        /\ \A name \in DOMAIN files :
               name \in DOMAIN files' /\ IsPrefix(files[name], files'[name])
      ]_vars

C5_Witness ==
    /\ pc = "aborted" /\ error = "RuntimeError"
    /\ Len(appended) = 1
    /\ Len(public_items) = 2
    /\ page_num < end_page

C9_RoundTrip ==
    \A i \in 1..Len(appended) :
        Lower(appended[i][1]) \in load_existing_titles(files, out_csv)

\* C10: the fetch of a page without a content region yields no item and does
\* not end the run: the next step of the loop is page p + 1 (or the end of
\* the range); and a run only ever ends early on a failed fetch or a failed
\* CMS lookup.
C10_EmptyPageGoesOn ==
    [][ /\ (Len(fetched') > Len(fetched) /\ fetched'[Len(fetched')][2] = "no_main")
            => /\ pc' = "page" /\ page_num' = page_num + 1
               /\ public_items' = <<>> /\ total_scanned' = total_scanned
               /\ session' = session /\ files' = files
        /\ (pc' = "aborted" /\ pc # "aborted")
            => \/ (Len(fetched') > Len(fetched) /\ fetched'[Len(fetched')][2] = "error")
               \/ (\E v \in verified' \ verified : v[2] = "RuntimeError")
      ]_vars

C10_Witness ==
    /\ pc = "done"
    /\ Len(fetched) = 2
    /\ fetched[1][2] = "no_main"
    /\ fetched[2][1] = fetched[1][1] + 1

====
